---- MODULE Spec2Model ----
(***************************************************************************)
(* Single-node multi-GPU PageRank (cpp/src/snmg/link_analysis/pagerank.cu). *)
(*                                                                         *)
(* Two specifications share the definitions of the solver:                 *)
(*   SolverSpec  one SNMGpagerank solver per worker, driven by a caller    *)
(*               that issues setup / solve calls in any order;             *)
(*   Spec        the entry point gdf_snmg_pagerank: argument validation,   *)
(*               then the OpenMP parallel region of                        *)
(*               gdf_snmg_pagerank_impl with one worker per device.        *)
(*                                                                         *)
(* ValueType (float) is modelled as fixed point: a value x stands for      *)
(* x / Unit, and every multiplication and division rounds toward zero.     *)
(***************************************************************************)
EXTENDS Integers, Sequences, FiniteSets, TLC

(***************************************************************************)
(* Bounds of the model.                                                    *)
(***************************************************************************)
\* largest total vertex count part_off[nt]
MaxV == 2
\* largest number of edges of the whole graph
MaxE == 2
\* largest max_iter / n_iter
MaxIter == 2
\* largest number of times snmg_degree fails on one solver
MaxDegFail == 1

(***************************************************************************)
(* ValueType arithmetic.                                                   *)
(***************************************************************************)
\* the fixed-point scale: the ValueType 1.0
Unit == 1000
\* contents of a device buffer that was allocated and never written
Uninit == -1

Mul(a, b) == (a * b) \div Unit
Div(a, b) == (a * Unit) \div b

RECURSIVE SqrtSearch(_, _, _)
SqrtSearch(n, lo, hi) ==
  IF lo >= hi THEN lo
  ELSE LET mid == (lo + hi + 1) \div 2
       IN  IF mid * mid <= n THEN SqrtSearch(n, mid, hi)
           ELSE SqrtSearch(n, lo, mid - 1)

\* floor of the square root of n
ISqrt(n) == SqrtSearch(n, 0, 46340)

Idx(n) == 0 .. (n - 1)

RECURSIVE SumTo(_, _)
SumTo(f, n) == IF n = 0 THEN 0 ELSE f[n - 1] + SumTo(f, n - 1)

(***************************************************************************)
(* Vector arithmetic primitives (utilities/graph_utils.cuh).               *)
(***************************************************************************)
\* the vector f[0], ..., f[n-1], every entry evaluated once
RECURSIVE Vec(_, _)
Vec(f, n) == IF n = 0 THEN <<>> ELSE Vec(f, n - 1) @@ ((n - 1) :> f[n - 1])

Abs(x) == IF x < 0 THEN 0 - x ELSE x

fill(n, buf, value) == Vec([i \in Idx(n) |-> value], n)
scal(n, factor, buf) == Vec([i \in Idx(n) |-> Mul(factor, buf[i])], n)
addv(n, scalar, buf) == Vec([i \in Idx(n) |-> buf[i] + scalar], n)
dot(n, a, b) == SumTo([i \in Idx(n) |-> Mul(a[i], b[i])], n)
nrm1(n, buf) == SumTo([i \in Idx(n) |-> Abs(buf[i])], n)
nrm2(n, buf) == ISqrt(SumTo([i \in Idx(n) |-> buf[i] * buf[i]], n))

(***************************************************************************)
(* The partitioned CSR the conversion hands to the solver.                 *)
(***************************************************************************)
\* part_off: nt+1 non-decreasing offsets, from 0 to the vertex count V
PartOffsets(nt, V) ==
  { f \in [0 .. nt -> 0 .. V] :
      /\ f[0] = 0
      /\ f[nt] = V
      /\ \A d \in 0 .. (nt - 1) : f[d] <= f[d + 1] }

\* edge sets of at most MaxE edges <<row, column>> over V vertices
EdgeSets(V) ==
  { E \in SUBSET (Idx(V) \X Idx(V)) : Cardinality(E) <= MaxE }

Before(e, f) == e[1] < f[1] \/ (e[1] = f[1] /\ e[2] < f[2])

\* the shard of worker w: the rows part_off[w] .. part_off[w+1]-1
ShardEdges(E, po, w) == { e \in E : po[w] <= e[1] /\ e[1] < po[w + 1] }

\* row offsets of the shard: off[r] = number of local edges in rows before r
ShardOff(E, po, w) ==
  [r \in 0 .. (po[w + 1] - po[w]) |->
     Cardinality({ e \in ShardEdges(E, po, w) : e[1] < po[w] + r })]

\* column indices of the shard, in row order
ShardInd(E, po, w) ==
  LET Ew == ShardEdges(E, po, w)
  IN  [k \in Idx(Cardinality(Ew)) |->
         (CHOOSE e \in Ew : Cardinality({ f \in Ew : Before(f, e) }) = k)[2]]

Csr(nt, po, E) ==
  [nt |-> nt,
   part_off |-> po,
   off |-> [w \in Idx(nt) |-> ShardOff(E, po, w)],
   ind |-> [w \in Idx(nt) |-> ShardInd(E, po, w)]]

\* every partitioned CSR over nt workers within the bounds
Graphs(nt) ==
  UNION { UNION { { Csr(nt, po, E) : E \in EdgeSets(V) } : po \in PartOffsets(nt, V) }
          : V \in 1 .. MaxV }

\* the numbers of devices a machine may report (cudaGetDeviceCount)
DevCounts == {1, 2}

NoGraph == [nt |-> 0, part_off |-> <<>>, off |-> <<>>, ind |-> <<>>]


(***************************************************************************)
(* State.                                                                  *)
(***************************************************************************)
VARIABLES
  graph,      \* part_offset and the CSR shards (NoGraph before the conversion)
  solver,     \* solver[w]: the SNMGpagerank object of worker w
  pagerank,   \* pagerank[w]: the PageRank buffer of worker w
  last,       \* the caller's view of the last solver call: op, argument, what the caller overwrote the buffer with, error, operations run
  args,       \* the arguments of gdf_snmg_pagerank
  phase,      \* of the entry point: "call", "parallel", "returned", "terminated"
  ret,        \* the status the entry point returned
  status,     \* the shared status of gdf_snmg_pagerank_impl
  worker,     \* worker[w]: position and locals of the OpenMP thread w
  pr_col      \* the result column

solverVars == <<graph, solver, pagerank, last>>
entryVars == <<args, phase, ret, status, worker, pr_col>>
vars == <<graph, solver, pagerank, last, args, phase, ret, status, worker, pr_col>>

(***************************************************************************)
(* Device memory: per solver, how often each buffer was allocated / freed. *)
(***************************************************************************)
Bufs == {"bookmark", "val", "degree_loc"}

ALLOC_TRY(o, b) == [o EXCEPT !.allocs[b] = @ + 1]
ALLOC_FREE_TRY(o, b) == [o EXCEPT !.frees[b] = @ + 1]

Live(o, b) == o.allocs[b] - o.frees[b]

(***************************************************************************)
(* SNMGpagerank: constructor and destructor.                               *)
(***************************************************************************)
NoSolver ==
  [made |-> FALSE, id |-> 0, nt |-> 0, v_glob |-> 0, v_loc |-> 0, e_loc |-> 0,
   is_setup |-> FALSE, alpha |-> Uninit, bookmark |-> <<>>, val |-> <<>>,
   allocs |-> [b \in Bufs |-> 0], frees |-> [b \in Bufs |-> 0], ndegree |-> 0]

SNMGpagerank(G, i) ==
  LET nt_ == G.nt
      vg  == G.part_off[nt_]
      vl  == G.part_off[i + 1] - G.part_off[i]
      el  == G.off[i][vl]
      o   == [NoSolver EXCEPT !.made = TRUE, !.id = i, !.nt = nt_, !.v_glob = vg,
                              !.v_loc = vl, !.e_loc = el, !.is_setup = FALSE,
                              !.bookmark = [v \in Idx(vg) |-> Uninit],
                              !.val = [k \in Idx(el) |-> Uninit]]
  IN  ALLOC_TRY(ALLOC_TRY(o, "bookmark"), "val")

\* a destructor that releases the bookmark only
Destroy_keep_val(o) ==
  [ALLOC_FREE_TRY(o, "bookmark") EXCEPT !.made = FALSE]

Destroy_SNMGpagerank(o) ==
  [ALLOC_FREE_TRY(ALLOC_FREE_TRY(o, "bookmark"), "val") EXCEPT !.made = FALSE]

(***************************************************************************)
(* snmg_degree (snmg/degree/degree.cuh): the global degree vector, the     *)
(* number of edges over all shards whose column index is v.                *)
(***************************************************************************)
snmg_degree(G) ==
  [v \in Idx(G.part_off[G.nt]) |->
     SumTo([w \in Idx(G.nt) |->
              Cardinality({ k \in DOMAIN G.ind[w] : G.ind[w][k] = v })], G.nt)]

(***************************************************************************)
(* setup and its kernels.                                                  *)
(***************************************************************************)
\* a kernel that divides by one more than the degree
transition_kernel_off(e, ind, degree, val) ==
  [i \in Idx(e) |-> Unit \div (degree[ind[i]] + 1)]

\* val[i] = 1.0 / degree[ind[i]]
transition_kernel(e, ind, degree, val) ==
  [i \in Idx(e) |-> Unit \div degree[ind[i]]]

transition_vals(o, ind, degree) ==
  [o EXCEPT !.val = transition_kernel(o.e_loc, ind, degree, o.val)]

\* a kernel that also marks the vertices of degree 1
flag_leafs_low(o, degree) ==
  [o EXCEPT !.bookmark =
     [v \in Idx(o.v_glob) |-> IF degree[v] <= 1 THEN Unit ELSE o.bookmark[v]]]

\* flag_leafs_kernel marks the vertices of degree 0 in bookmark
flag_leafs(o, degree) ==
  [o EXCEPT !.bookmark =
     [v \in Idx(o.v_glob) |-> IF degree[v] = 0 THEN Unit ELSE o.bookmark[v]]]

\* the marked (dangling) entries become alpha
update_dangling_nodes(n, bookmark, alpha) ==
  [v \in Idx(n) |-> IF bookmark[v] = Unit THEN alpha ELSE bookmark[v]]

ErrNone == "none"
ErrSetupTwice == "Setup can be called only once"
ErrNotSetup == "Solve was called before setup"
ErrDegree == "SNMG Degree failed in Pagerank"

\* a setup that sets is_setup before the degree computation
setup_body_early(o, _alpha, ind, rc, degree) ==
  LET o1 == ALLOC_TRY([o EXCEPT !.alpha = _alpha, !.is_setup = TRUE], "degree_loc")
      o2 == [o1 EXCEPT !.ndegree = @ + 1]
  IN  IF rc # 0
      THEN [o |-> o2, err |-> ErrDegree]
      ELSE LET o3 == [o2 EXCEPT !.bookmark = fill(o.v_glob, o.bookmark, 0)]
               o4 == flag_leafs(o3, degree)
               o5 == [o4 EXCEPT !.bookmark =
                        update_dangling_nodes(o.v_glob, o4.bookmark, o4.alpha)]
               o6 == transition_vals(o5, ind, degree)
               o7 == ALLOC_FREE_TRY(o6, "degree_loc")
           IN  [o |-> o7, err |-> ErrNone]

\* a setup that does not free degree_loc
setup_body_leak(o, _alpha, ind, rc, degree) ==
  LET o1 == ALLOC_TRY([o EXCEPT !.alpha = _alpha], "degree_loc")
      o2 == [o1 EXCEPT !.ndegree = @ + 1]
  IN  IF rc # 0
      THEN [o |-> o2, err |-> ErrDegree]
      ELSE LET o3 == [o2 EXCEPT !.bookmark = fill(o.v_glob, o.bookmark, 0)]
               o4 == flag_leafs(o3, degree)
               o5 == [o4 EXCEPT !.bookmark =
                        update_dangling_nodes(o.v_glob, o4.bookmark, o4.alpha)]
               o6 == transition_vals(o5, ind, degree)
           IN  [o |-> [o6 EXCEPT !.is_setup = TRUE], err |-> ErrNone]

\* the body of setup when is_setup is false; rc is snmg_degree's return code
setup_body(o, _alpha, ind, rc, degree) ==
  LET o1 == ALLOC_TRY([o EXCEPT !.alpha = _alpha], "degree_loc")
      o2 == [o1 EXCEPT !.ndegree = @ + 1]
  IN  IF rc # 0
      THEN [o |-> o2, err |-> ErrDegree]
      ELSE LET o3 == [o2 EXCEPT !.bookmark = fill(o.v_glob, o.bookmark, 0)]
               o4 == flag_leafs(o3, degree)
               o5 == [o4 EXCEPT !.bookmark =
                        update_dangling_nodes(o.v_glob, o4.bookmark, o4.alpha)]
               o6 == transition_vals(o5, ind, degree)
               o7 == ALLOC_FREE_TRY(o6, "degree_loc")
           IN  [o |-> [o7 EXCEPT !.is_setup = TRUE], err |-> ErrNone]

\* setup without the is_setup test
setup_unguarded(o, _alpha, ind, rc, degree) ==
  setup_body(o, _alpha, ind, rc, degree)

setup(o, _alpha, ind, rc, degree) ==
  IF ~o.is_setup
  THEN setup_body(o, _alpha, ind, rc, degree)
  ELSE [o |-> o, err |-> ErrSetupTwice]

(***************************************************************************)
(* SNMGcsrmv (snmg/blas/spmv.cuh): x := A x on the row-partitioned matrix. *)
(* Worker w multiplies its row block by its copy x[w] of the full vector;  *)
(* the segments are then gathered, so every copy holds the whole product.  *)
(***************************************************************************)
Owner(G, v) == CHOOSE w \in Idx(G.nt) : G.part_off[w] <= v /\ v < G.part_off[w + 1]

RowSum(off, ind, val, x, r) ==
  SumTo([j \in Idx(off[r + 1] - off[r]) |-> Mul(val[off[r] + j], x[ind[off[r] + j]])],
        off[r + 1] - off[r])

SNMGcsrmv_run(G, S, x) ==
  LET y_loc == Vec([w \in Idx(G.nt) |->
                      Vec([r \in Idx(S[w].v_loc) |->
                             RowSum(G.off[w], G.ind[w], S[w].val, x[w], r)], S[w].v_loc)],
                   G.nt)
      full  == Vec([v \in Idx(G.part_off[G.nt]) |->
                      y_loc[Owner(G, v)][v - G.part_off[Owner(G, v)]]], G.part_off[G.nt])
  IN  Vec([w \in Idx(G.nt) |-> full], G.nt)

(***************************************************************************)
(* solve.  The state of one worker inside solve is                         *)
(*   [pr, dot_res, ops]: its vector, its dot_res, and the operations it    *)
(*   has executed, each with its scalar argument or result.                *)
(***************************************************************************)
OneOver(n) == Unit \div n

\* solve that starts from the contents of the caller's buffer
solve_init_nofill(o, pr) ==
  LET d == dot(o.v_glob, o.bookmark, pr)
  IN  [pr |-> pr, dot_res |-> d, ops |-> << <<"dot", d>> >>]

\* lines 127-133: uniform initialisation and the first dot product
solve_init(o, pr) ==
  LET pr1 == fill(o.v_glob, pr, OneOver(o.v_glob))
      d   == dot(o.v_glob, o.bookmark, pr1)
  IN  [pr |-> pr1, dot_res |-> d,
       ops |-> << <<"fill", OneOver(o.v_glob)>>, <<"dot", d>> >>]

\* an iteration that recomputes dot_res after the L2 renormalisation
solve_step_late_dot(o, st, y) ==
  LET pr1 == scal(o.v_glob, o.alpha, y)
      a   == Mul(st.dot_res, OneOver(o.v_glob))
      pr2 == addv(o.v_glob, a, pr1)
      f   == Div(Unit, nrm2(o.v_glob, pr2))
      pr3 == scal(o.v_glob, f, pr2)
      d   == dot(o.v_glob, o.bookmark, pr3)
  IN  [pr |-> pr3, dot_res |-> d,
       ops |-> st.ops \o << <<"spmv", 0>>, <<"scal", o.alpha>>, <<"addv", a>>,
                            <<"scal_nrm2", f>>, <<"dot", d>> >>]

\* lines 137-140: the rest of one iteration, y being the vector spmv_solver.run left
solve_step(o, st, y) ==
  LET pr1 == scal(o.v_glob, o.alpha, y)
      a   == Mul(st.dot_res, OneOver(o.v_glob))
      pr2 == addv(o.v_glob, a, pr1)
      d   == dot(o.v_glob, o.bookmark, pr2)
      f   == Div(Unit, nrm2(o.v_glob, pr2))
      pr3 == scal(o.v_glob, f, pr2)
  IN  [pr |-> pr3, dot_res |-> d,
       ops |-> st.ops \o << <<"spmv", 0>>, <<"scal", o.alpha>>, <<"addv", a>>,
                            <<"dot", d>>, <<"scal_nrm2", f>> >>]

\* a final renormalisation by the L2 norm
solve_exit_l2(o, st) ==
  LET f == Div(Unit, nrm2(o.v_glob, st.pr))
  IN  [pr |-> scal(o.v_glob, f, st.pr), dot_res |-> st.dot_res,
       ops |-> Append(st.ops, <<"scal_nrm1", f>>)]

\* line 142: the final L1 renormalisation
solve_exit(o, st) ==
  LET f == Div(Unit, nrm1(o.v_glob, st.pr))
  IN  [pr |-> scal(o.v_glob, f, st.pr), dot_res |-> st.dot_res,
       ops |-> Append(st.ops, <<"scal_nrm1", f>>)]

\* line 135: the number of times for (auto i = 0; i < max_iter; ++i) runs its body
Trips(max_iter) == IF 0 < max_iter THEN max_iter ELSE 0

\* lines 135-141: the workers' states after the first n iterations
RECURSIVE solve_loop(_, _, _, _)
solve_loop(G, S, st0, n) ==
  IF n = 0
  THEN st0
  ELSE LET st == solve_loop(G, S, st0, n - 1)
           y  == SNMGcsrmv_run(G, S, [w \in DOMAIN st |-> st[w].pr])
       IN  Vec([w \in DOMAIN st |-> solve_step(S[w], st[w], y[w])], G.nt)

\* what the workers that are set up compute, all calling solve(max_iter, pr)
solve_body(G, S, max_iter, pr) ==
  LET st0 == Vec([w \in Idx(G.nt) |-> solve_init(S[w], pr[w])], G.nt)
      stN == solve_loop(G, S, st0, Trips(max_iter))
  IN  Vec([w \in DOMAIN stN |-> solve_exit(S[w], stN[w])], G.nt)

\* solve without the is_setup test
solve_unguarded(G, S, max_iter, pr) ==
  LET r == solve_body(G, S, max_iter, pr)
  IN  Vec([w \in DOMAIN S |-> [pr |-> r[w].pr, err |-> ErrNone, ops |-> r[w].ops]], G.nt)

\* solve called by every worker: for each worker w the new pagerank[w], the error
\* thrown, the operations run
solve(G, S, max_iter, pr) ==
  IF \E w \in DOMAIN S : S[w].is_setup
  THEN LET r == solve_body(G, S, max_iter, pr)
       IN  Vec([w \in DOMAIN S |->
                  IF S[w].is_setup
                  THEN [pr |-> r[w].pr, err |-> ErrNone, ops |-> r[w].ops]
                  ELSE [pr |-> pr[w], err |-> ErrNotSetup, ops |-> <<>>]], G.nt)
  ELSE Vec([w \in DOMAIN S |-> [pr |-> pr[w], err |-> ErrNotSetup, ops |-> <<>>]], G.nt)

(***************************************************************************)
(* The entry point's state while no call of gdf_snmg_pagerank is modelled. *)
(***************************************************************************)
NoArgs == [n_gpus |-> 0]
NoColumn == [data |-> <<>>, size |-> 0, dtype |-> "none", writes |-> <<>>]

EntryIdle ==
  /\ args = NoArgs
  /\ phase = "idle"
  /\ ret = "none"
  /\ status = "none"
  /\ worker = <<>>
  /\ pr_col = NoColumn

(***************************************************************************)
(* SolverSpec: a caller that has constructed one solver per worker over a  *)
(* partitioned CSR and calls setup and solve, on all workers together, in  *)
(* any order and any number of times, then destroys the solvers.           *)
(***************************************************************************)
\* damping factors a caller passes to setup
Alphas == {Unit \div 2, (85 * Unit) \div 100}

\* contents the PageRank buffers a caller passes to solve may hold
Contents == {7 * Unit}

NoCall == [op |-> "none", arg |-> 0, buf |-> <<>>, err |-> <<>>, ops |-> <<>>]

SolverInit ==
  /\ \E nt \in DevCounts : graph \in Graphs(nt)
  /\ solver = [w \in Idx(graph.nt) |-> SNMGpagerank(graph, w)]
  /\ pagerank = [w \in Idx(graph.nt) |-> [v \in Idx(graph.part_off[graph.nt]) |-> Uninit]]
  /\ last = NoCall
  /\ EntryIdle

Alive == \A w \in DOMAIN solver : solver[w].made

\* every worker calls setup(_alpha, degree); rc is what snmg_degree returns
Setup(_alpha, rc) ==
  /\ Alive
  /\ \E r \in {[w \in DOMAIN solver |->
                  setup(solver[w], _alpha, graph.ind[w], rc, snmg_degree(graph))]} :
       /\ solver' = [w \in DOMAIN solver |-> r[w].o]
       /\ last' = [op |-> "setup", arg |-> _alpha, buf |-> <<>>,
                   err |-> [w \in DOMAIN solver |-> r[w].err],
                   ops |-> [w \in DOMAIN solver |-> <<>>]]
  /\ UNCHANGED <<graph, pagerank>>
  /\ UNCHANGED entryVars

\* the buffers a caller may pass to solve: the ones the last call left, or overwritten
Buffers ==
  {pagerank} \cup
  { [w \in DOMAIN pagerank |-> [v \in DOMAIN pagerank[w] |-> c]] : c \in Contents }

\* every worker calls solve(max_iter, pr)
Solve(max_iter, pr) ==
  /\ Alive
  /\ \E r \in {solve(graph, solver, max_iter, pr)} :
       /\ pagerank' = [w \in DOMAIN solver |-> r[w].pr]
       /\ last' = [op |-> "solve", arg |-> max_iter,
                   buf |-> IF pr = pagerank THEN <<>> ELSE <<pr[0][0]>>,
                   err |-> [w \in DOMAIN solver |-> r[w].err],
                   ops |-> [w \in DOMAIN solver |-> r[w].ops]]
  /\ UNCHANGED <<graph, solver>>
  /\ UNCHANGED entryVars

\* the caller destroys the solvers
Destroy ==
  /\ Alive
  /\ solver' = [w \in DOMAIN solver |-> Destroy_SNMGpagerank(solver[w])]
  /\ last' = [NoCall EXCEPT !.op = "destroy"]
  /\ UNCHANGED <<graph, pagerank>>
  /\ UNCHANGED entryVars

SolverNext ==
  \/ \E a \in Alphas : Setup(a, 0)
  \/ \E n \in 0 .. MaxIter, pr \in Buffers : Solve(n, pr)
  \/ Destroy

SolverSpec == SolverInit /\ [][SolverNext]_vars

(***************************************************************************)
(* LifeSpec: the same caller, whose setup calls may also meet a failing    *)
(* snmg_degree (lines 102-103), at most MaxDegFail times per solver; the   *)
(* caller catches the exception and goes on.  It passes to solve the       *)
(* buffers as the last call left them.                                     *)
(***************************************************************************)
\* every worker calls setup(_alpha, degree) and snmg_degree returns non-zero
SetupDegreeFails(_alpha) ==
  /\ \A w \in DOMAIN solver : ~solver[w].is_setup /\ solver[w].ndegree < MaxDegFail
  /\ Setup(_alpha, 1)

LifeNext ==
  \/ \E a \in Alphas : Setup(a, 0)
  \/ \E a \in Alphas : SetupDegreeFails(a)
  \/ \E n \in 0 .. MaxIter : Solve(n, pagerank)
  \/ Destroy

LifeSpec == SolverInit /\ [][LifeNext]_vars

(***************************************************************************)
(* gdf_snmg_pagerank: the arguments and their validation (lines 272-313).  *)
(***************************************************************************)
GDF_SUCCESS == "GDF_SUCCESS"
GDF_INVALID_API_CALL == "GDF_INVALID_API_CALL"
GDF_COLUMN_SIZE_MISMATCH == "GDF_COLUMN_SIZE_MISMATCH"
GDF_UNSUPPORTED_DTYPE == "GDF_UNSUPPORTED_DTYPE"
GDF_VALIDITY_UNSUPPORTED == "GDF_VALIDITY_UNSUPPORTED"
GDF_INT32 == "GDF_INT32"
GDF_INT64 == "GDF_INT64"
GDF_FLOAT32 == "GDF_FLOAT32"

Column(size, dtype, null_count) == [size |-> size, dtype |-> dtype, null_count |-> null_count]

\* the <<source, destination>> column pairs a caller passes for one device
ColumnPairs ==
  { <<Column(2, GDF_INT32, 0), Column(2, GDF_INT32, 0)>>,
    <<Column(2, GDF_INT32, 0), Column(1, GDF_INT32, 0)>>,
    <<Column(2, GDF_INT32, 0), Column(2, GDF_INT64, 0)>>,
    <<Column(2, GDF_INT64, 0), Column(2, GDF_INT64, 0)>>,
    <<Column(2, GDF_INT32, 1), Column(2, GDF_INT32, 0)>>,
    <<Column(2, GDF_INT32, 0), Column(2, GDF_INT32, 1)>> }

\* damping factors a caller passes: 0.0, 0.85, 1.0
Dampings == {0, (85 * Unit) \div 100, Unit}

MaxDevCount == CHOOSE n \in DevCounts : \A m \in DevCounts : m <= n

\* the calls of gdf_snmg_pagerank: the column arrays exist when their pointers are not null
Calls ==
  { a \in [src_null : BOOLEAN, dest_null : BOOLEAN, pr_null : BOOLEAN,
           damping_factor : Dampings, n_iter : 0 .. MaxIter,
           n_gpus : 0 .. (MaxDevCount + 1), dev_count : DevCounts,
           cols : UNION { [Idx(n) -> ColumnPairs] : n \in 0 .. (MaxDevCount + 1) }] :
      DOMAIN a.cols = (IF a.src_null \/ a.dest_null THEN {} ELSE Idx(a.n_gpus)) }

\* the checks of one device without the comparison of the sizes
ColumnCheck_nosize(src, dest) ==
  IF src.dtype # dest.dtype THEN GDF_UNSUPPORTED_DTYPE
  ELSE IF src.null_count # 0 THEN GDF_VALIDITY_UNSUPPORTED
  ELSE IF dest.null_count # 0 THEN GDF_VALIDITY_UNSUPPORTED
  ELSE IF src.dtype # GDF_INT32 THEN GDF_UNSUPPORTED_DTYPE
  ELSE IF dest.dtype # GDF_INT32 THEN GDF_UNSUPPORTED_DTYPE
  ELSE GDF_SUCCESS

\* lines 299-306: the checks of the columns of one device
ColumnCheck(src, dest) ==
  IF src.size # dest.size THEN GDF_COLUMN_SIZE_MISMATCH
  ELSE IF src.dtype # dest.dtype THEN GDF_UNSUPPORTED_DTYPE
  ELSE IF src.null_count # 0 THEN GDF_VALIDITY_UNSUPPORTED
  ELSE IF dest.null_count # 0 THEN GDF_VALIDITY_UNSUPPORTED
  ELSE IF src.dtype # GDF_INT32 THEN GDF_UNSUPPORTED_DTYPE
  ELSE IF dest.dtype # GDF_INT32 THEN GDF_UNSUPPORTED_DTYPE
  ELSE GDF_SUCCESS

\* lines 296-307: for each GPU, in order
RECURSIVE ColumnLoop(_, _)
ColumnLoop(a, i) ==
  IF i < a.n_gpus
  THEN LET c == ColumnCheck(a.cols[i][1], a.cols[i][2])
       IN  IF c # GDF_SUCCESS THEN c ELSE ColumnLoop(a, i + 1)
  ELSE GDF_SUCCESS

\* the validation without GDF_REQUIRE(n_iter > 0)
Validate_noiter(a) ==
  IF a.src_null THEN GDF_INVALID_API_CALL
  ELSE IF a.dest_null THEN GDF_INVALID_API_CALL
  ELSE IF a.pr_null THEN GDF_INVALID_API_CALL
  ELSE IF ~(a.damping_factor > 0) THEN GDF_INVALID_API_CALL
  ELSE IF ~(a.damping_factor < Unit) THEN GDF_INVALID_API_CALL
  ELSE IF ~(a.n_gpus > 0) THEN GDF_INVALID_API_CALL
  ELSE IF ~(a.n_gpus < a.dev_count + 1) THEN GDF_INVALID_API_CALL
  ELSE ColumnLoop(a, 0)

\* lines 280-307: the first GDF_REQUIRE that fails, or GDF_SUCCESS
Validate(a) ==
  IF a.src_null THEN GDF_INVALID_API_CALL
  ELSE IF a.dest_null THEN GDF_INVALID_API_CALL
  ELSE IF a.pr_null THEN GDF_INVALID_API_CALL
  ELSE IF ~(a.damping_factor > 0) THEN GDF_INVALID_API_CALL
  ELSE IF ~(a.damping_factor < Unit) THEN GDF_INVALID_API_CALL
  ELSE IF ~(a.n_iter > 0) THEN GDF_INVALID_API_CALL
  ELSE IF ~(a.n_gpus > 0) THEN GDF_INVALID_API_CALL
  ELSE IF ~(a.n_gpus < a.dev_count + 1) THEN GDF_INVALID_API_CALL
  ELSE ColumnLoop(a, 0)

(***************************************************************************)
(* gdf_snmg_pagerank_impl: the parallel region (lines 183-267).            *)
(***************************************************************************)
\* failure codes gdf_snmg_coo2csr may return
CooFailures == {"GDF_CUDA_ERROR", "GDF_C_ERROR"}

NewWorker ==
  [pc |-> "coo2csr", status_i |-> "none", solved |-> FALSE, threw |-> ErrNone,
   pr_allocs |-> 0, pr_frees |-> 0]

\* An exception that leaves the parallel region is not caught by the thread that
\* threw it: the process is terminated, or the exception unwinds out of the
\* entry point to its caller.  Either way the entry point returns no status.
ThrowOutcomes == {"terminated", "thrown"}

\* a block every thread of the team runs
IsMaster_any(w) == w = w

\* #pragma omp master: the thread 0 of the team
IsMaster(w) == w = 0

Workers == DOMAIN worker

Init ==
  /\ args \in Calls
  /\ phase = "call"
  /\ ret = "none"
  /\ status = "none"
  /\ worker = <<>>
  /\ pr_col = NoColumn
  /\ graph = NoGraph
  /\ solver = <<>>
  /\ pagerank = <<>>
  /\ last = NoCall

\* lines 280-307: a GDF_REQUIRE fails and the entry point returns its code
Reject ==
  /\ phase = "call"
  /\ Validate(args) # GDF_SUCCESS
  /\ phase' = "returned"
  /\ ret' = Validate(args)
  /\ UNCHANGED <<args, status, worker, pr_col, graph, solver, pagerank, last>>

\* lines 309-310, 166-183: the call of the implementation opens the parallel region
Launch ==
  /\ phase = "call"
  /\ Validate(args) = GDF_SUCCESS
  /\ phase' = "parallel"
  /\ status' = GDF_SUCCESS
  /\ worker' = [w \in Idx(args.n_gpus) |-> NewWorker]
  /\ solver' = [w \in Idx(args.n_gpus) |-> NoSolver]
  /\ pagerank' = [w \in Idx(args.n_gpus) |-> <<>>]
  /\ UNCHANGED <<args, ret, pr_col, graph, last>>

\* lines 203-212: gdf_snmg_coo2csr returns to worker w; the conversion fixes
\* part_offset and the shards for the whole team
Coo2Csr(w) ==
  /\ phase = "parallel"
  /\ worker[w].pc = "coo2csr"
  /\ IF graph = NoGraph THEN graph' \in Graphs(args.n_gpus) ELSE graph' = graph
  /\ \E c \in {GDF_SUCCESS} \cup CooFailures :
       worker' = [worker EXCEPT ![w].status_i = c, ![w].pc = "check"]
  /\ UNCHANGED <<args, phase, ret, status, pr_col, solver, pagerank, last>>

\* a check that stores the return code whatever it is
CheckStatus_always(w) ==
  /\ phase = "parallel"
  /\ worker[w].pc = "check"
  /\ status' = worker[w].status_i
  /\ worker' = [worker EXCEPT ![w].pc = "construct"]
  /\ UNCHANGED <<args, phase, ret, pr_col, graph, solver, pagerank, last>>

\* lines 220-224: checking coo2csr return code
CheckStatus(w) ==
  /\ phase = "parallel"
  /\ worker[w].pc = "check"
  /\ status' = IF worker[w].status_i # GDF_SUCCESS THEN worker[w].status_i ELSE status
  /\ worker' = [worker EXCEPT ![w].pc = "construct"]
  /\ UNCHANGED <<args, phase, ret, pr_col, graph, solver, pagerank, last>>

\* lines 226-228: the solver is constructed on the CSR columns.  After a failed
\* conversion the columns' data pointers are indeterminate: the construction
\* either proceeds on whatever they point to, or the process faults (Fault).
Construct(w) ==
  /\ phase = "parallel"
  /\ worker[w].pc = "construct"
  /\ solver' = [solver EXCEPT ![w] = SNMGpagerank(graph, w)]
  /\ worker' = [worker EXCEPT ![w].pc = "setup"]
  /\ UNCHANGED <<args, phase, ret, status, pr_col, graph, pagerank, last>>

Fault(w) ==
  /\ phase = "parallel"
  /\ worker[w].pc = "construct"
  /\ worker[w].status_i # GDF_SUCCESS
  /\ phase' = "terminated"
  /\ UNCHANGED <<args, ret, status, worker, pr_col, graph, solver, pagerank, last>>

\* snmg_degree synchronises the team: it returns once every worker has called it
AllReached(pcs) == \A v \in Workers : worker[v].pc \in pcs

\* line 231: pr_solver.setup(damping_factor, degree) returns
SetupReturn(w) ==
  /\ phase = "parallel"
  /\ worker[w].pc = "setup"
  /\ AllReached({"setup", "solve", "publish", "free", "done"})
  /\ \E r \in {setup(solver[w], args.damping_factor, graph.ind[w], 0, snmg_degree(graph))} :
       /\ r.err = ErrNone
       /\ solver' = [solver EXCEPT ![w] = r.o]
  /\ worker' = [worker EXCEPT ![w].pc = "solve"]
  /\ UNCHANGED <<args, phase, ret, status, pr_col, graph, pagerank, last>>

\* line 231, 102-103: snmg_degree fails and setup throws; nothing in the parallel
\* region catches the exception.  If it unwinds out of the block, pr_solver is
\* destroyed on the way; if the process is terminated, nothing is.
SetupThrow(w) ==
  /\ phase = "parallel"
  /\ worker[w].pc = "setup"
  /\ AllReached({"setup", "solve", "publish", "free", "done"})
  /\ \E r \in {setup(solver[w], args.damping_factor, graph.ind[w], 1, snmg_degree(graph))} :
       /\ r.err # ErrNone
       /\ \E out \in ThrowOutcomes :
            /\ phase' = out
            /\ solver' = [solver EXCEPT ![w] = IF out = "thrown"
                                               THEN Destroy_SNMGpagerank(r.o)
                                               ELSE r.o]
       /\ worker' = [worker EXCEPT ![w].threw = r.err]
  /\ UNCHANGED <<args, ret, status, pr_col, graph, pagerank, last>>

\* lines 240-243: the worker allocates pagerank[i] and solve returns; the SpMV of
\* solve synchronises the team, so it returns once every worker has called it
SolveReturn(w) ==
  /\ phase = "parallel"
  /\ worker[w].pc = "solve"
  /\ AllReached({"solve", "publish", "free", "done"})
  /\ \E r \in {solve(graph, solver, args.n_iter,
                     [v \in Workers |-> [x \in Idx(solver[v].v_glob) |-> Uninit]])[w]} :
       /\ pagerank' = [pagerank EXCEPT ![w] = r.pr]
       /\ IF r.err = ErrNone THEN phase' = phase ELSE phase' \in ThrowOutcomes
       /\ worker' = [worker EXCEPT ![w].pc = "publish", ![w].pr_allocs = @ + 1,
                                   ![w].solved = (r.err = ErrNone), ![w].threw = r.err]
  /\ UNCHANGED <<args, ret, status, pr_col, graph, solver, last>>

\* lines 246-257: the master sets the result in the gdf column
Publish(w) ==
  /\ phase = "parallel"
  /\ worker[w].pc = "publish"
  /\ pr_col' = IF IsMaster(w)
               THEN [data |-> pagerank[w],
                     size |-> graph.part_off[args.n_gpus],
                     dtype |-> GDF_FLOAT32,
                     writes |-> Append(pr_col.writes, [by |-> w, solved |-> worker[w].solved])]
               ELSE pr_col
  /\ worker' = [worker EXCEPT ![w].pc = "free"]
  /\ UNCHANGED <<args, phase, ret, status, graph, solver, pagerank, last>>

\* lines 264-267: the CSR columns and pagerank[i] are freed, pr_solver is destroyed
Free(w) ==
  /\ phase = "parallel"
  /\ worker[w].pc = "free"
  /\ pagerank' = [pagerank EXCEPT ![w] = <<>>]
  /\ solver' = [solver EXCEPT ![w] = Destroy_SNMGpagerank(solver[w])]
  /\ worker' = [worker EXCEPT ![w].pc = "done", ![w].pr_frees = @ + 1]
  /\ UNCHANGED <<args, phase, ret, status, pr_col, graph, last>>

\* lines 267-269, 311: the region ends when every worker is done; return status
Return ==
  /\ phase = "parallel"
  /\ AllReached({"done"})
  /\ phase' = "returned"
  /\ ret' = status
  /\ UNCHANGED <<args, status, worker, pr_col, graph, solver, pagerank, last>>

Next ==
  \/ Reject
  \/ Launch
  \/ \E w \in Workers : Coo2Csr(w)
  \/ \E w \in Workers : CheckStatus(w)
  \/ \E w \in Workers : Construct(w)
  \/ \E w \in Workers : Fault(w)
  \/ \E w \in Workers : SetupReturn(w)
  \/ \E w \in Workers : SetupThrow(w)
  \/ \E w \in Workers : SolveReturn(w)
  \/ \E w \in Workers : Publish(w)
  \/ \E w \in Workers : Free(w)
  \/ Return

Spec == Init /\ [][Next]_vars

(***************************************************************************)
(* IterSpec: the workers of one team inside one solve(max_iter, pagerank)  *)
(* call on Ready solvers, each at its own pace.  worker[w] is              *)
(*   pc       the statement of solve the worker is at,                     *)
(*   i        its loop counter,                                            *)
(*   entered  the number of spmv_solver.run calls it has entered,          *)
(*   started  the number of local multiplies it has started,               *)
(*   made     the number of vectors it has finished producing: the uniform *)
(*            initial vector, then one per completed iteration.            *)
(* The only synchronisation solve contains is inside SNMGcsrmv::run: the   *)
(* exchange of the segments waits until every worker has made its segment  *)
(* available, i.e. has entered the same run call.                          *)
(***************************************************************************)
IterWorker == [pc |-> "fill", i |-> 0, entered |-> 0, started |-> 0, made |-> 0]

IterInit ==
  /\ \E nt \in DevCounts, n \in 0 .. MaxIter :
       /\ args = [n_gpus |-> nt, n_iter |-> n]
       /\ worker = [w \in Idx(nt) |-> IterWorker]
  /\ phase = "solve"
  /\ ret = "none"
  /\ status = "none"
  /\ pr_col = NoColumn
  /\ graph = NoGraph
  /\ solver = <<>>
  /\ pagerank = <<>>
  /\ last = NoCall

IterFrame == UNCHANGED <<args, phase, ret, status, pr_col, graph, solver, pagerank, last>>

\* line 128: fill(v_glob, pagerank[id], one/v_glob) produces the initial vector
IterFill(w) ==
  /\ worker[w].pc = "fill"
  /\ worker' = [worker EXCEPT ![w].pc = "dot", ![w].made = 1]
  /\ IterFrame

\* lines 132-134: the first dot_res, and the construction of spmv_solver
IterDot(w) ==
  /\ worker[w].pc = "dot"
  /\ worker' = [worker EXCEPT ![w].pc = "loop"]
  /\ IterFrame

\* lines 135-136: the loop test; the worker enters spmv_solver.run or leaves the loop
IterLoop(w) ==
  /\ worker[w].pc = "loop"
  /\ worker' = IF worker[w].i < args.n_iter
               THEN [worker EXCEPT ![w].pc = "run", ![w].entered = @ + 1]
               ELSE [worker EXCEPT ![w].pc = "nrm1"]
  /\ IterFrame

\* a worker that waits for no one
ExchangeReady_none(w) == w = w

\* the barrier of the exchange: every worker has entered the run call w is in
ExchangeReady(w) == \A v \in Workers : worker[v].entered >= worker[w].entered

\* line 136: inside spmv_solver.run the segments are exchanged and the worker
\* starts its local multiply
IterMultiply(w) ==
  /\ worker[w].pc = "run"
  /\ ExchangeReady(w)
  /\ worker' = [worker EXCEPT ![w].pc = "scal", ![w].started = @ + 1]
  /\ IterFrame

\* lines 137-139: scal by alpha, addv of dot_res/v_glob, the new dot_res
IterUpdate(w) ==
  /\ worker[w].pc \in {"scal", "addv", "dot_res"}
  /\ worker' = [worker EXCEPT ![w].pc = CASE @ = "scal" -> "addv"
                                          [] @ = "addv" -> "dot_res"
                                          [] @ = "dot_res" -> "nrm2"]
  /\ IterFrame

\* line 140: the L2 renormalisation finishes the vector of this iteration; ++i
IterNormalize(w) ==
  /\ worker[w].pc = "nrm2"
  /\ worker' = [worker EXCEPT ![w].pc = "loop", ![w].i = @ + 1, ![w].made = @ + 1]
  /\ IterFrame

\* line 142: the final L1 renormalisation, and solve returns
IterExit(w) ==
  /\ worker[w].pc = "nrm1"
  /\ worker' = [worker EXCEPT ![w].pc = "done"]
  /\ IterFrame

IterNext ==
  \/ \E w \in Workers : IterFill(w)
  \/ \E w \in Workers : IterDot(w)
  \/ \E w \in Workers : IterLoop(w)
  \/ \E w \in Workers : IterMultiply(w)
  \/ \E w \in Workers : IterUpdate(w)
  \/ \E w \in Workers : IterNormalize(w)
  \/ \E w \in Workers : IterExit(w)

IterSpec == IterInit /\ [][IterNext]_vars

(***************************************************************************)
(* Properties of the solver, checked under SolverSpec.                     *)
(***************************************************************************)
SetUp == \A w \in DOMAIN solver : solver[w].is_setup
NotSetUp == \A w \in DOMAIN solver : ~solver[w].is_setup

\* C1: a setup call on a solver that is already set up fails with "Setup can be
\* called only once" and changes nothing: alpha, bookmark, val and is_setup keep
\* the values of the first setup, nothing is allocated or freed, snmg_degree is
\* not called.
C1_SecondSetupRejected ==
  [][ (last'.op = "setup" /\ SetUp) =>
        \A w \in DOMAIN solver :
          /\ last'.err[w] = ErrSetupTwice
          /\ solver'[w].alpha = solver[w].alpha
          /\ solver'[w].bookmark = solver[w].bookmark
          /\ solver'[w].val = solver[w].val
          /\ solver'[w].is_setup
          /\ solver'[w].allocs = solver[w].allocs
          /\ solver'[w].frees = solver[w].frees
          /\ solver'[w].ndegree = solver[w].ndegree ]_vars

\* C1 witness: a second setup, with another alpha than the first, was rejected
C1_Witness ==
  /\ last.op = "setup"
  /\ \A w \in DOMAIN solver :
       /\ last.err[w] = ErrSetupTwice
       /\ solver[w].alpha # last.arg
       /\ solver[w].e_loc > 0

\* the buffers the caller passed to the solve call a step makes
PassedBuffer ==
  IF last'.buf = <<>>
  THEN pagerank
  ELSE [w \in DOMAIN pagerank |-> [v \in DOMAIN pagerank[w] |-> last'.buf[1]]]

\* C2: a solve call on a solver that is not set up fails with "Solve was called
\* before setup", runs no SpMV and no vector operation, and leaves the buffer the
\* caller passed and the solver as they were.
C2_SolveBeforeSetupRejected ==
  [][ (last'.op = "solve" /\ NotSetUp) =>
        /\ \A w \in DOMAIN solver :
             /\ last'.err[w] = ErrNotSetup
             /\ last'.ops[w] = <<>>
        /\ pagerank' = PassedBuffer
        /\ solver' = solver ]_vars

\* C2 witness: solve with max_iter > 0, on a buffer the caller had filled, was
\* rejected on a solver never set up
C2_Witness ==
  /\ last.op = "solve"
  /\ last.arg > 0
  /\ last.buf # <<>>
  /\ \A w \in DOMAIN pagerank : \A v \in DOMAIN pagerank[w] : pagerank[w][v] \in Contents
  /\ \A w \in DOMAIN solver : last.err[w] = ErrNotSetup /\ ~solver[w].is_setup

\* the names of the operations of one iteration, in order
IterationOps == <<"spmv", "scal", "addv", "dot", "scal_nrm2">>

\* ops is the trace of a solve of n iterations over v_glob vertices with factor alpha
SolveTrace(ops, n, v_glob, alpha) ==
  /\ Len(ops) = 2 + 5 * n + 1
  /\ ops[1] = <<"fill", OneOver(v_glob)>>
  /\ ops[2][1] = "dot"
  /\ \A k \in 0 .. (n - 1) :
       /\ \A j \in 1 .. 5 : ops[2 + 5 * k + j][1] = IterationOps[j]
       /\ ops[2 + 5 * k + 2][2] = alpha
       /\ ops[2 + 5 * k + 3][2] =
            Mul(ops[IF k = 0 THEN 2 ELSE 5 * k + 1][2], OneOver(v_glob))
  /\ ops[Len(ops)][1] = "scal_nrm1"
  /\ Cardinality({ i \in 1 .. Len(ops) : ops[i][1] = "scal_nrm1" }) = 1
  /\ Cardinality({ i \in 1 .. Len(ops) : ops[i][1] = "spmv" }) = n

\* C3: a solve on a Ready solver runs exactly max_iter iterations, each one SpMV,
\* scale by alpha, add dot_res/v_glob (dot_res from the end of the previous
\* iteration, or from before the loop), recompute dot_res, renormalise by the L2
\* norm; and exactly one L1 renormalisation, after the last iteration.
C3_FixedIterations ==
  (last.op = "solve" /\ SetUp) =>
     \A w \in DOMAIN solver :
       /\ last.err[w] = ErrNone
       /\ SolveTrace(last.ops[w], last.arg, solver[w].v_glob, solver[w].alpha)

\* C3 witness: a solve of MaxIter iterations on a graph with a dangling vertex
C3_Witness ==
  /\ last.op = "solve"
  /\ last.arg = MaxIter
  /\ SetUp
  /\ \A w \in DOMAIN solver : Len(last.ops[w]) = 3 + 5 * MaxIter
  /\ \E v \in DOMAIN solver[0].bookmark : solver[0].bookmark[v] # 0

\* buffers whose contents differ from every buffer the caller passes to solve
RefBuffers == [v \in DOMAIN solver |-> [x \in Idx(solver[v].v_glob) |-> (x + 2) * Unit]]

\* C8: solve leaves the solver Ready and alpha, bookmark and val as they were, and
\* its output depends on the solver and max_iter only, not on what the buffer held:
\* it is the output of the same solve on the buffers RefBuffers.
C8_SolveKeepsReady ==
  [][ (last'.op = "solve" /\ SetUp) =>
        /\ solver' = solver
        /\ \E r \in {solve(graph, solver, last'.arg, RefBuffers)} :
             \A w \in DOMAIN solver : pagerank'[w] = r[w].pr ]_vars

\* C8 witness: a solve of a set-up solver over two workers has returned
C8_Witness ==
  /\ last.op = "solve"
  /\ last.arg > 0
  /\ SetUp
  /\ graph.nt = 2
  /\ \A w \in DOMAIN solver : last.err[w] = ErrNone /\ solver[w].e_loc > 0

\* C9 as claimed: after solve failed with "not set up", no transition-value buffer
\* and no bookmark buffer is allocated.
C9_NoBuffersAfterError ==
  (last.op = "solve" /\ \E w \in DOMAIN solver : last.err[w] = ErrNotSetup) =>
     \A w \in DOMAIN solver :
       Live(solver[w], "bookmark") = 0 /\ Live(solver[w], "val") = 0

\* C9 amended: the failed solve allocates and frees nothing; the bookmark and
\* transition-value buffers the constructor allocated stay allocated, one each,
\* while the solver lives, and none is allocated once it is destroyed.
C9_BuffersLiveUntilDestroyed ==
  /\ (last.op = "solve" /\ \E w \in DOMAIN solver : last.err[w] = ErrNotSetup) =>
        \A w \in DOMAIN solver :
          /\ solver[w].allocs = [b \in Bufs |-> IF b = "degree_loc" THEN 0 ELSE 1]
          /\ solver[w].frees = [b \in Bufs |-> 0]
  /\ \A w \in DOMAIN solver :
       /\ solver[w].made => Live(solver[w], "bookmark") = 1 /\ Live(solver[w], "val") = 1
       /\ ~solver[w].made => \A b \in Bufs : Live(solver[w], b) = 0

\* C9 witness: solve has failed on a solver never set up, whose buffers are allocated
C9_Witness ==
  /\ last.op = "solve"
  /\ \A w \in DOMAIN solver :
       /\ last.err[w] = ErrNotSetup
       /\ Live(solver[w], "bookmark") = 1
       /\ Live(solver[w], "val") = 1

(***************************************************************************)
(* Properties of the entry point, checked under Spec.                      *)
(***************************************************************************)
\* nothing of the parallel region exists: no worker, no solver, no buffer, no
\* converted graph, and the result column is as the caller passed it
Untouched ==
  /\ phase \in {"call", "returned"}
  /\ worker = <<>>
  /\ solver = <<>>
  /\ pagerank = <<>>
  /\ graph = NoGraph
  /\ pr_col = NoColumn
  /\ status = "none"

\* C4 as claimed: when the entry point returns a non-success status, or some
\* worker's CSR conversion reported a failure, the result column holds no data,
\* size or dtype written by a worker.
C4_NoResultOnFailure ==
  ( \/ phase = "returned" /\ ret # GDF_SUCCESS
    \/ \E w \in Workers : worker[w].status_i \in CooFailures )
  => pr_col = NoColumn

\* some device i < n_gpus has source and destination columns of different sizes
HasSizeMismatch(a) ==
  \E i \in DOMAIN a.cols : i < a.n_gpus /\ a.cols[i][1].size # a.cols[i][2].size

\* the columns of device i pass every check of the loop
CleanDevice(a, i) ==
  /\ a.cols[i][1].size = a.cols[i][2].size
  /\ a.cols[i][1].dtype = GDF_INT32
  /\ a.cols[i][2].dtype = GDF_INT32
  /\ a.cols[i][1].null_count = 0
  /\ a.cols[i][2].null_count = 0

\* the pointers and the scalar arguments are valid
ScalarsValid(a) ==
  /\ ~a.src_null /\ ~a.dest_null /\ ~a.pr_null
  /\ 0 < a.damping_factor /\ a.damping_factor < Unit
  /\ a.n_iter > 0
  /\ 0 < a.n_gpus /\ a.n_gpus <= a.dev_count

\* a size mismatch is the first violation the validation meets
SizeMismatchFirst(a) ==
  /\ ScalarsValid(a)
  /\ \E i \in Idx(a.n_gpus) :
       /\ a.cols[i][1].size # a.cols[i][2].size
       /\ \A j \in Idx(i) : CleanDevice(a, j)

\* C5 as claimed: a call with a size mismatch on some device returns
\* ColumnSizeMismatch, with no worker launched, no allocation and the result
\* column not modified.
C5_SizeMismatchCode ==
  HasSizeMismatch(args) =>
     /\ Untouched
     /\ phase = "returned" => ret = GDF_COLUMN_SIZE_MISMATCH

\* C5 amended: a call with a size mismatch on some device returns a validation
\* error with no worker launched, no allocation and the result column not
\* modified; the error is ColumnSizeMismatch when the mismatch is the first
\* violation in validation order (pointers, damping factor, iterations, device
\* count, then the devices in order), and the code of the earlier violation
\* otherwise.
C5_SizeMismatchRejected ==
  HasSizeMismatch(args) =>
     /\ Untouched
     /\ phase = "returned" =>
          /\ ret \in {GDF_INVALID_API_CALL, GDF_COLUMN_SIZE_MISMATCH,
                      GDF_UNSUPPORTED_DTYPE, GDF_VALIDITY_UNSUPPORTED}
          /\ SizeMismatchFirst(args) <=> ret = GDF_COLUMN_SIZE_MISMATCH

\* C5 witness: the call returned ColumnSizeMismatch for a mismatch on the second
\* of two devices
C5_Witness ==
  /\ phase = "returned"
  /\ ret = GDF_COLUMN_SIZE_MISMATCH
  /\ args.n_gpus = 2
  /\ CleanDevice(args, 0)
  /\ args.cols[1][1].size # args.cols[1][2].size

\* every precondition of the entry point
Preconditions(a) ==
  /\ ScalarsValid(a)
  /\ \A i \in Idx(a.n_gpus) : CleanDevice(a, i)

\* the damping factor, the iteration count or the device count is out of bounds
BoundsViolated(a) ==
  \/ ~(0 < a.damping_factor /\ a.damping_factor < Unit)
  \/ ~(a.n_iter > 0)
  \/ ~(0 < a.n_gpus /\ a.n_gpus <= a.dev_count)

\* C6: workers are launched, and anything is allocated, set up, solved or written
\* to the result column, only if every precondition holds; a call that violates
\* the bounds of damping_factor, n_iter or n_gpus returns GDF_INVALID_API_CALL
\* and creates nothing.
C6_LaunchOnlyIfValid ==
  /\ ~Untouched => Preconditions(args)
  /\ BoundsViolated(args) =>
       /\ Untouched
       /\ phase = "returned" => ret = GDF_INVALID_API_CALL

\* C6 witness: a call with n_iter = 0 and every other argument valid was rejected
C6_Witness ==
  /\ phase = "returned"
  /\ ret = GDF_INVALID_API_CALL
  /\ args.n_iter = 0
  /\ Preconditions([args EXCEPT !.n_iter = 1])

\* C7 as claimed: when the degree computation fails for a worker during setup,
\* the entry point still returns to its caller, and what it returns is a failure
\* status.
C7_DegreeFailureReturned ==
  (\E w \in Workers : worker[w].threw = ErrDegree) =>
     /\ phase \notin ThrowOutcomes
     /\ phase = "returned" => ret \notin {"none", GDF_SUCCESS}

\* C10: only the master writes the result column, at most once and after its own
\* solve has returned; in a run that returns GDF_SUCCESS it has written exactly
\* once, and the column has part_offset[n_gpus] elements.
C10_MasterPublishesOnce ==
  /\ Len(pr_col.writes) <= 1
  /\ \A k \in DOMAIN pr_col.writes :
       pr_col.writes[k].by = 0 /\ pr_col.writes[k].solved
  /\ (phase = "returned" /\ ret = GDF_SUCCESS /\ worker # <<>>) =>
       /\ Len(pr_col.writes) = 1
       /\ pr_col.size = graph.part_off[args.n_gpus]
       /\ DOMAIN pr_col.data = Idx(graph.part_off[args.n_gpus])
       /\ pr_col.dtype = GDF_FLOAT32

\* C10 witness: a run over two workers returned GDF_SUCCESS with the column written
C10_Witness ==
  /\ phase = "returned"
  /\ ret = GDF_SUCCESS
  /\ args.n_gpus = 2
  /\ Len(pr_col.writes) = 1
  /\ pr_col.size = 2

(***************************************************************************)
(* Numerical and structural properties of the solver, under SolverSpec.    *)
(***************************************************************************)
\* the rounding of the fixed-point ValueType over a vector of n entries: one unit
\* per entry from the truncating products, two from the truncated reciprocal
Tolerance(n) == n + 2

C12_IterationsSequential ==
  \A w \in Workers : \A v \in Workers : worker[w].started <= worker[v].made

\* C12 witness: a worker is in the multiply of the last iteration of a solve of
\* two workers and MaxIter iterations while the other has not started it
C12_Witness ==
  /\ args.n_gpus = 2
  /\ args.n_iter = MaxIter
  /\ worker[0].pc = "scal"
  /\ worker[0].started = MaxIter
  /\ worker[1].pc = "run"
  /\ worker[1].started = MaxIter - 1

(***************************************************************************)
(* The shared status of the parallel region, under Spec.                   *)
(***************************************************************************)
\* the failure codes the workers that have passed the status check reported
Reported ==
  { worker[w].status_i : w \in { v \in Workers : /\ worker[v].pc \notin {"coo2csr", "check"}
                                                 /\ worker[v].status_i \in CooFailures } }

\* C13: the shared status starts as GDF_SUCCESS and only a failure code is ever
\* stored in it: once a worker has reported a failure the status is one of the
\* failure codes reported, never GDF_SUCCESS again; the entry point returns one of
\* the reported failure codes if some conversion failed, and GDF_SUCCESS if none.
C13_StatusKeepsFailure ==
  (phase \in {"parallel", "returned"} /\ worker # <<>>) =>
     /\ status \in {GDF_SUCCESS} \cup Reported
     /\ Reported # {} => status \in Reported
     /\ phase = "returned" =>
          /\ ret = status
          /\ ret = GDF_SUCCESS <=> \A w \in Workers : worker[w].status_i = GDF_SUCCESS

\* C13 witness: the conversion failed on worker 0 only, worker 1 passed the check
\* after it, and the entry point returned the code of worker 0
C13_Witness ==
  /\ phase = "returned"
  /\ Workers = {0, 1}
  /\ worker[0].status_i \in CooFailures
  /\ worker[1].status_i = GDF_SUCCESS
  /\ ret = worker[0].status_i

(***************************************************************************)
(* Resources on the failure of the degree computation, under Spec.         *)
(***************************************************************************)
\* C14 as claimed: when the degree computation failed in a worker's setup, none of
\* that worker's degree, bookmark and transition-value buffers stays allocated
\* once the worker has left the call.
C14_ReleasedOnDegreeFailure ==
  \A w \in Workers :
    worker[w].threw = ErrDegree => \A b \in Bufs : Live(solver[w], b) = 0

(***************************************************************************)
(* What setup leaves in bookmark and val, under SolverSpec.                *)
(***************************************************************************)
\* the edges of the whole graph that have v as column index, as <<shard, position>>
ColumnEdges(v) ==
  { e \in UNION { {w} \X DOMAIN graph.ind[w] : w \in Idx(graph.nt) } :
      graph.ind[e[1]][e[2]] = v }

\* C15: after a successful setup(alpha), on every worker and for every global
\* vertex v, bookmark[v] is alpha if no edge of any shard has v as column index,
\* and 0 otherwise, however the edges are partitioned.
C15_BookmarkFlagsDangling ==
  \A w \in DOMAIN solver :
    solver[w].is_setup =>
       \A v \in Idx(solver[w].v_glob) :
         solver[w].bookmark[v] = IF ColumnEdges(v) = {} THEN solver[w].alpha ELSE 0

\* C15 witness: two workers are set up on a graph in which a vertex is dangling
\* and another one has its only edges in the other worker's shard
C15_Witness ==
  /\ graph.nt = 2
  /\ SetUp
  /\ \E v \in Idx(solver[0].v_glob) : solver[0].bookmark[v] = solver[0].alpha
  /\ \E v \in Idx(solver[0].v_glob) :
       /\ solver[0].bookmark[v] = 0
       /\ \A k \in DOMAIN graph.ind[0] : graph.ind[0][k] # v

\* C16: after a successful setup, for every worker and every local edge position
\* i < e_loc, the vertex ind[i] has global degree at least 1, is not flagged as
\* dangling, and val[i] is the reciprocal of that degree.
C16_TransitionValues ==
  \A w \in DOMAIN solver :
    solver[w].is_setup =>
       /\ DOMAIN solver[w].val = Idx(solver[w].e_loc)
       /\ \A i \in Idx(solver[w].e_loc) :
            LET d == Cardinality(ColumnEdges(graph.ind[w][i]))
            IN  /\ d >= 1
                /\ solver[w].val[i] = Unit \div d
                /\ solver[w].bookmark[graph.ind[w][i]] = 0

\* C16 witness: a worker is set up whose shard has an edge to a vertex of global
\* degree 2, one of the two edges being in the other worker's shard
C16_Witness ==
  /\ graph.nt = 2
  /\ SetUp
  /\ \E i \in DOMAIN graph.ind[0] :
       /\ Cardinality(ColumnEdges(graph.ind[0][i])) = 2
       /\ solver[0].val[i] = Unit \div 2
       /\ \E k \in DOMAIN graph.ind[1] : graph.ind[1][k] = graph.ind[0][i]

(***************************************************************************)
(* Buffer lifecycles on the success path of the entry point, under Spec.   *)
(***************************************************************************)
\* no conversion has failed and no worker has thrown
SuccessPath ==
  /\ phase \in {"parallel", "returned"}
  /\ \A w \in Workers : worker[w].status_i \notin CooFailures /\ worker[w].threw = ErrNone

\* how often each solver buffer has been allocated / freed, as functions on Bufs
Counts(bookmark, val, degree_loc) ==
  [b \in Bufs |-> CASE b = "bookmark" -> bookmark [] b = "val" -> val [] b = "degree_loc" -> degree_loc]

\* the buffers of worker w are where its position in the region says they are
BufferLifecycle(w) ==
  LET pc == worker[w].pc
      o  == solver[w]
  IN  /\ pc \in {"coo2csr", "check", "construct"} =>
           /\ o.allocs = Counts(0, 0, 0) /\ o.frees = Counts(0, 0, 0)
           /\ worker[w].pr_allocs = 0 /\ worker[w].pr_frees = 0
      /\ pc = "setup" =>
           /\ o.allocs = Counts(1, 1, 0) /\ o.frees = Counts(0, 0, 0)
           /\ worker[w].pr_allocs = 0 /\ worker[w].pr_frees = 0
      /\ pc = "solve" =>
           /\ o.allocs = Counts(1, 1, 1) /\ o.frees = Counts(0, 0, 1)
           /\ worker[w].pr_allocs = 0 /\ worker[w].pr_frees = 0
      /\ pc \in {"publish", "free"} =>
           /\ o.allocs = Counts(1, 1, 1) /\ o.frees = Counts(0, 0, 1)
           /\ worker[w].pr_allocs = 1 /\ worker[w].pr_frees = 0
           /\ worker[w].solved
           /\ DOMAIN pagerank[w] = Idx(o.v_glob)
      /\ pc = "done" =>
           /\ o.allocs = Counts(1, 1, 1) /\ o.frees = Counts(1, 1, 1)
           /\ worker[w].pr_allocs = 1 /\ worker[w].pr_frees = 1
           /\ worker[w].solved
           /\ IsMaster(w) => Len(pr_col.writes) = 1

\* C17: on the success path every worker allocates each of its buffers once and
\* frees it once: degree_loc is freed when setup returns, bookmark and val are
\* live during solve and freed at the teardown after it, pagerank[i] is live from
\* before solve until after the master's copy and freed after it; the data of the
\* result column is allocated once and still allocated when the call returns.
C17_BufferLifecycle ==
  SuccessPath =>
     /\ \A w \in Workers : BufferLifecycle(w)
     /\ Len(pr_col.writes) <= 1
     /\ (phase = "returned" /\ worker # <<>>) =>
          /\ \A w \in Workers : worker[w].pc = "done"
          /\ Len(pr_col.writes) = 1
          /\ DOMAIN pr_col.data = Idx(pr_col.size)

\* C17 witness: a run of two workers has returned GDF_SUCCESS with every solver
\* buffer freed and the result column holding its data
C17_Witness ==
  /\ phase = "returned"
  /\ ret = GDF_SUCCESS
  /\ Workers = {0, 1}
  /\ \A w \in Workers : solver[w].frees = Counts(1, 1, 1) /\ worker[w].pr_frees = 1
  /\ pr_col.size > 0
  /\ DOMAIN pr_col.data = Idx(pr_col.size)

(***************************************************************************)
(* The is_setup flag, under LifeSpec.                                      *)
(***************************************************************************)
\* C18: is_setup is false after construction; it becomes true only in a setup
\* call whose degree computation succeeded, and never becomes false again.  A
\* setup that failed in the degree computation leaves it false, so that a solve
\* that follows fails with "Solve was called before setup" and a setup that
\* follows runs the degree computation again; solve runs operations only on a
\* solver that is set up.
C18_SetupFlag ==
  [][ \A w \in DOMAIN solver :
        /\ last.op = "none" => ~solver[w].is_setup
        /\ solver[w].is_setup => solver'[w].is_setup
        /\ (~solver[w].is_setup /\ solver'[w].is_setup) =>
              /\ last'.op = "setup"
              /\ last'.err[w] = ErrNone
              /\ solver'[w].ndegree = solver[w].ndegree + 1
        /\ (last'.op = "setup" /\ last'.err[w] = ErrDegree) => ~solver'[w].is_setup
        /\ (last'.op = "solve" /\ last'.ops[w] # <<>>) =>
              solver[w].is_setup /\ solver'[w].is_setup
        /\ (last.op = "setup" /\ last.err[w] = ErrDegree /\ last'.op = "solve") =>
              last'.err[w] = ErrNotSetup /\ last'.ops[w] = <<>>
        /\ (last.op = "setup" /\ last.err[w] = ErrDegree /\ last'.op = "setup") =>
              /\ last'.err[w] # ErrSetupTwice
              /\ solver'[w].ndegree = solver[w].ndegree + 1 ]_vars

\* C18 witness: after a setup that failed in the degree computation, a second
\* setup succeeded and a solve with max_iter > 0 ran on the solver
C18_Witness ==
  /\ last.op = "solve"
  /\ last.arg > 0
  /\ \A w \in DOMAIN solver :
       /\ solver[w].is_setup
       /\ solver[w].ndegree = 2
       /\ last.err[w] = ErrNone
       /\ last.ops[w] # <<>>

====
